---------------------------- MODULE Spec2Model ----------------------------
(***************************************************************************)
(* A model of the image and coordinate pipeline of pdf_renamer             *)
(* (src/main.py, class Api): navigation over the listed assets, rotation,  *)
(* preview derivation, selection mapping for OCR, and the export commit.   *)
(*                                                                         *)
(* Strings are sequences of one-character strings, so that formatting a    *)
(* file name ("{base}({counter}){ext}"), splitting an extension and        *)
(* looking for reserved characters are computed as the code computes them. *)
(***************************************************************************)
EXTENDS Integers, Sequences, FiniteSets, TLC

(***************************************************************************)
(* Bounds of the model.                                                    *)
(***************************************************************************)
\* Number of files in the destination folder at which the session stops
\* calling rename_and_save: in a session of any calls, and in an export session.
MaxDestFiles == 2

MaxExportFiles == 3
\* Largest page number tried by goto_image beyond the number of assets.
MaxGotoOver == 1
\* Largest coordinate and extent of a selection, in display pixels.
MaxSel == 4

\* src/main.py:18
MAX_DISPLAY_SIZE == 4200

(***************************************************************************)
(* Characters and strings.                                                 *)
(***************************************************************************)
\* The characters in use, in code point order (str comparison, str.lower()).
Alphabet ==
    << "\"", "(", ")", "*", "-", ".", "/", "0", "1", "2", "3", "4", "5", "6",
       "7", "8", "9", ":", "<", ">", "?", "A", "B", "G", "J", "P", "\\", "a",
       "b", "c", "d", "e", "f", "g", "i", "j", "n", "p", "q", "r", "t", "x",
       "y", "|" >>

Ord(c) == CHOOSE i \in 1..Len(Alphabet) : Alphabet[i] = c

\* str.lower() on one character.
LowerChar(c) ==
    CASE c = "A" -> "a"
      [] c = "B" -> "b"
      [] c = "G" -> "g"
      [] c = "J" -> "j"
      [] c = "P" -> "p"
      [] OTHER -> c

Lower(s) == [i \in 1..Len(s) |-> LowerChar(s[i])]

\* c in s
Contains(s, c) == \E i \in 1..Len(s) : s[i] = c

\* s.rfind(c), 1-based; 0 when absent.
RFind(s, c) ==
    IF Contains(s, c)
    THEN CHOOSE i \in 1..Len(s) : s[i] = c /\ \A j \in (i+1)..Len(s) : s[j] # c
    ELSE 0

\* str < str: lexicographic by code point.
StrLess(s, t) ==
    \E k \in 0..Len(s) :
        /\ k <= Len(t)
        /\ \A i \in 1..k : s[i] = t[i]
        /\ \/ k = Len(s) /\ k < Len(t)
           \/ k < Len(s) /\ k < Len(t) /\ Ord(s[k+1]) < Ord(t[k+1])

\* sorted(S) for a set of strings.
RECURSIVE Sorted(_)
Sorted(S) ==
    IF S = {} THEN << >>
    ELSE LET m == CHOOSE x \in S : \A y \in S \ {x} : StrLess(x, y)
         IN  << m >> \o Sorted(S \ {m})

DigitChar == << "0", "1", "2", "3", "4", "5", "6", "7", "8", "9" >>

\* str(n) for n >= 0, as the f-string formats the counter.
RECURSIVE IntToStr(_)
IntToStr(n) ==
    IF n < 10 THEN << DigitChar[n + 1] >>
    ELSE IntToStr(n \div 10) \o << DigitChar[(n % 10) + 1] >>

\* os.path.splitext(path)[1]: from the last dot of the last component, unless
\* that component has only dots before it.
SplitExt(p) ==
    LET sep == RFind(p, "/")
        dot == RFind(p, ".")
    IN  IF dot > sep /\ \E i \in (sep + 1)..(dot - 1) : p[i] # "."
        THEN SubSeq(p, dot, Len(p))
        ELSE << >>

\* os.path.basename(path)
BaseName(p) == SubSeq(p, RFind(p, "/") + 1, Len(p))

\* pathlib's PurePath.suffix of a file name.
PathSuffix(name) ==
    LET i == RFind(name, ".")
    IN  IF 1 < i /\ i < Len(name) THEN SubSeq(name, i, Len(name)) ELSE << >>

\* os.path.join(folder, name)
JoinPath(folder, name) == folder \o << "/" >> \o name


(***************************************************************************)
(* Double-precision arithmetic, as Python's float computes a / b and       *)
(* int(v * r) for integers a, b, v.  A positive float is a record          *)
(* [m, e]: m its 53 significant bits, the most significant first, and e    *)
(* the power of two of the last bit.  Every result is rounded to the       *)
(* nearest float, ties to the even one.                                    *)
(***************************************************************************)
MantissaBits == 53

\* The binary digits of n, 0 <= n < 2^30, the most significant first; none
\* for 0.
Bits(n) ==
    LET len == CHOOSE k \in 0..30 : n < 2^k /\ (k = 0 \/ n >= 2^(k - 1))
    IN  [i \in 1..len |-> (n \div 2^(len - i)) % 2]

\* The integer that the binary digits spell.
RECURSIVE BitsToInt(_)
BitsToInt(bits) ==
    IF bits = << >> THEN 0
    ELSE IF Len(bits) = 1 THEN bits[1]
    ELSE LET low == Len(bits) \div 2
         IN  BitsToInt(SubSeq(bits, 1, Len(bits) - low)) * 2^low
                + BitsToInt(SubSeq(bits, Len(bits) - low + 1, Len(bits)))

\* Digits are worked out eight at a time.
LimbBits == 8

LimbBase == 2^LimbBits

\* The i-th of the eight binary digits of limb, 0 <= limb < 256.
LimbDigit(limb, i) == (limb \div 2^(LimbBits - i)) % 2

\* What is left of rem / b, 0 <= rem < b < 2^23, after j limbs of digits.
RECURSIVE FracRem(_, _, _)
FracRem(rem, b, j) ==
    IF j = 0 THEN rem ELSE (FracRem(rem, b, j - 1) * LimbBase) % b

\* The first k binary digits of rem / b after the point.
FracBits(rem, b, k) ==
    [i \in 1..k |->
        LimbDigit((FracRem(rem, b, (i - 1) \div LimbBits) * LimbBase) \div b,
                  ((i - 1) % LimbBits) + 1)]

\* The digits without their leading zeros.
StripZeros(bits) ==
    IF \A i \in 1..Len(bits) : bits[i] = 0 THEN << >>
    ELSE LET first == CHOOSE i \in 1..Len(bits) :
                          bits[i] = 1 /\ \A j \in 1..(i - 1) : bits[j] = 0
         IN  SubSeq(bits, first, Len(bits))

\* The digits plus one, for digits that are not all ones.
PlusOne(bits) ==
    LET last0 == CHOOSE i \in 1..Len(bits) :
                     bits[i] = 0 /\ \A j \in (i + 1)..Len(bits) : bits[j] = 1
    IN  [i \in 1..Len(bits) |->
            IF i < last0 THEN bits[i] ELSE IF i = last0 THEN 1 ELSE 0]

\* The float nearest to the number whose digits are bits (leading digit 1,
\* last digit worth 2^e) plus a rest below the last digit that is zero
\* exactly when exact holds.
RoundToFloat(bits, e, exact) ==
    LET n == Len(bits)
    IN  IF n <= MantissaBits
        THEN [m |-> bits \o [i \in 1..(MantissaBits - n) |-> 0],
              e |-> e - (MantissaBits - n)]
        ELSE LET kept == SubSeq(bits, 1, MantissaBits)
                 guard == bits[MantissaBits + 1]
                 sticky == \/ ~exact
                           \/ \E i \in (MantissaBits + 2)..n : bits[i] = 1
                 up == guard = 1 /\ (sticky \/ kept[MantissaBits] = 1)
                 shifted == e + (n - MantissaBits)
             IN  IF ~up THEN [m |-> kept, e |-> shifted]
                 ELSE IF \A i \in 1..MantissaBits : kept[i] = 1
                 THEN [m |-> << 1 >> \o [i \in 1..(MantissaBits - 1) |-> 0],
                       e |-> shifted + 1]
                 ELSE [m |-> PlusOne(kept), e |-> shifted]

\* The digits after the point beyond which a quotient is only looked at for
\* being zero: twelve limbs.
QuotientBits == 96

\* a / b for integers 1 <= a < 2^30, 1 <= b < 2^23.
FloatDiv(a, b) ==
    LET all == Bits(a \div b) \o FracBits(a % b, b, QuotientBits)
    IN  RoundToFloat(StripZeros(all), 0 - QuotientBits,
                     FracRem(a % b, b, QuotientBits \div LimbBits) = 0)

\* The j-th limb of the digits, counted from the right.
Limb(bits, j) ==
    LET to == Len(bits) - LimbBits * (j - 1)
        from == IF to - LimbBits + 1 < 1 THEN 1 ELSE to - LimbBits + 1
    IN  BitsToInt(SubSeq(bits, from, to))

\* v times the j rightmost limbs of the digits, 0 <= v < 2^22, less its
\* j * 8 rightmost digits: the carry into limb j + 1.
RECURSIVE Carry(_, _, _)
Carry(bits, v, j) ==
    IF j = 0 THEN 0
    ELSE (v * Limb(bits, j) + Carry(bits, v, j - 1)) \div LimbBase

\* The digits of v times the number the digits spell.
TimesInt(bits, v) ==
    LET limbs == ((Len(bits) + LimbBits) - 1) \div LimbBits
    IN  Bits(Carry(bits, v, limbs))
           \o [i \in 1..(LimbBits * limbs) |->
                  LET j == limbs - (i - 1) \div LimbBits
                  IN  LimbDigit((v * Limb(bits, j) + Carry(bits, v, j - 1)) % LimbBase,
                                ((i - 1) % LimbBits) + 1)]

\* v * r for an integer v >= 1 and a float r.
FloatTimes(v, r) == RoundToFloat(StripZeros(TimesInt(r.m, v)), r.e, TRUE)

\* int(r) for a float r below 2^31.
FloatTrunc(r) ==
    IF r.e >= 0 THEN BitsToInt(r.m \o [i \in 1..r.e |-> 0])
    ELSE IF 0 - r.e >= MantissaBits THEN 0
    ELSE BitsToInt(SubSeq(r.m, 1, MantissaBits + r.e))

\* int(v * (a / b)) for integers v, a >= 1, b >= 1: the product truncated
\* toward zero.
TruncTimesQuotient(v, a, b) ==
    IF v = 0 THEN 0
    ELSE IF v > 0 THEN FloatTrunc(FloatTimes(v, FloatDiv(a, b)))
    ELSE 0 - FloatTrunc(FloatTimes(0 - v, FloatDiv(a, b)))

(***************************************************************************)
(* The files on disk that the session can open.  A file has a folder, a    *)
(* name, and what its bytes are: the container format, whether it decodes, *)
(* its stored pixel size (page size in points for a PDF), the orientation  *)
(* tag it embeds (0: none) and whether the preview can be JPEG-encoded.    *)
(***************************************************************************)
File(dir, name, format, decodes, w, h, orient, encodes) ==
    [dir |-> dir, name |-> name, format |-> format, decodes |-> decodes,
     w |-> w, h |-> h, orient |-> orient, encodes |-> encodes]

Files ==
    { File(<<"p">>, <<"a", ".", "j", "p", "g">>, "jpeg", TRUE, 5250, 3000, 0, TRUE),
      File(<<"p">>, <<"b", ".", "J", "P", "G">>, "jpeg", TRUE, 40, 30, 6, TRUE),
      File(<<"p">>, <<"d", ".", "p", "n", "g">>, "png", FALSE, 0, 0, 0, FALSE),
      File(<<"r">>, <<"c", ".", "p", "d", "f">>, "pdf", TRUE, 20, 10, 0, TRUE),
      File(<<"r">>, <<"f", ".", "t", "i", "f">>, "tiff", TRUE, 30, 20, 6, TRUE),
      File(<<"r">>, <<"g">>, "jpeg", TRUE, 8, 6, 1, TRUE),
      File(<<"r">>, <<"i", ".", "p", "n", "g">>, "png", TRUE, 12, 9, 0, FALSE) }

\* Files with a side above MAX_DISPLAY_SIZE, or exactly at it, in a folder of
\* their own: a strip one pixel wide, a narrow strip, a square at the ceiling,
\* an image one pixel over it and a long band.
LargeFiles ==
    { File(<<"w">>, <<"t", ".", "p", "n", "g">>, "png", TRUE, 1, 4201, 0, TRUE),
      File(<<"w">>, <<"u", ".", "p", "n", "g">>, "png", TRUE, 90, 6000, 0, TRUE),
      File(<<"w">>, <<"v", ".", "p", "n", "g">>, "png", TRUE, 4200, 4200, 0, TRUE),
      File(<<"w">>, <<"w", ".", "p", "n", "g">>, "png", TRUE, 4201, 4200, 0, TRUE),
      File(<<"w">>, <<"y", ".", "j", "p", "g">>, "jpeg", TRUE, 8377, 5, 0, TRUE) }

FilePath(f) == JoinPath(f.dir, f.name)

FileTable ==
    [p \in { FilePath(f) : f \in Files \cup LargeFiles } |->
        CHOOSE f \in Files \cup LargeFiles : FilePath(f) = p]

FileAt(path) == FileTable[path]

\* Folders the folder dialog can return: "q" is empty, "t" cannot be listed.
SourceFolders == { <<"p">>, <<"q">>, <<"r">>, <<"t">> }

Listable(folder) == folder # <<"t">>

\* The folder the save-path dialog returns.
SaveFolder == <<"x">>

\* src/main.py:94
SupportedExtensions ==
    { <<".", "j", "p", "g">>, <<".", "j", "p", "e", "g">>, <<".", "p", "n", "g">>,
      <<".", "b", "m", "p">>, <<".", "g", "i", "f">>,
      <<".", "w", "e", "b", "p">>, <<".", "p", "d", "f">> }

\* The listing open_folder builds: sorted entries with a supported suffix.
ListFolder(folder) ==
    LET entries == { FilePath(f) : f \in { g \in Files : g.dir = folder } }
    IN  SelectSeq(Sorted(entries),
                  LAMBDA p : Lower(PathSuffix(BaseName(p))) \in SupportedExtensions)

Listings == [folder \in SourceFolders |-> ListFolder(folder)]

\* _is_pdf
IsPdf(path) == Lower(SplitExt(path)) = <<".", "p", "d", "f">>

(***************************************************************************)
(* Loading and the preview.                                                *)
(***************************************************************************)
\* Whether _load_image returns an image: a ".pdf" path goes to the PDF
\* renderer, any other path to the raster decoder.
Loads(path) ==
    LET f == FileAt(path)
    IN  /\ f.decodes
        /\ IF IsPdf(path) THEN f.format = "pdf" ELSE f.format # "pdf"

\* ImageOps.exif_transpose swaps the axes for orientations 5..8.
Transposed(w, h, orient) == IF orient \in 5..8 THEN << h, w >> ELSE << w, h >>

\* Size of the image _load_image returns: the first page at 2x for a PDF,
\* the orientation-corrected raster otherwise.
LoadedSize(path) ==
    LET f == FileAt(path)
    IN  IF IsPdf(path) THEN << 2 * f.w, 2 * f.h >>
        ELSE Transposed(f.w, f.h, f.orient)

\* img.rotate(-rotation, expand=True) for rotation in {0, 90, 180, 270}.
Rotated(size, rot) ==
    IF rot \in {90, 270} THEN << size[2], size[1] >> ELSE size

\* The preview size: unchanged when both sides fit MAX_DISPLAY_SIZE, else
\* int(w * ratio) and int(h * ratio) for the float
\* ratio = min(MAX / w, MAX / h), which is MAX / max(w, h) because the
\* rounded quotient does not decrease as the exact one grows.
DisplaySize(w, h) ==
    IF w > MAX_DISPLAY_SIZE \/ h > MAX_DISPLAY_SIZE
    THEN LET den == IF w >= h THEN w ELSE h
         IN  << TruncTimesQuotient(w, MAX_DISPLAY_SIZE, den),
                TruncTimesQuotient(h, MAX_DISPLAY_SIZE, den) >>
    ELSE << w, h >>

Rotations == { 0, 90, 180, 270 }

\* The preview size of every file at every rotation, worked out once.
Previews ==
    [path \in DOMAIN FileTable |->
        [rot \in Rotations |->
            LET size == Rotated(LoadedSize(path), rot)
            IN  DisplaySize(size[1], size[2])]]

\* _get_current_image_data: the outcome and the four recorded sizes it leaves.
\*   no asset at the index                  -> failure, sizes untouched
\*   the load raises                        -> failure, sizes untouched
\*   resize or JPEG encoding raises         -> failure, sizes already recorded
GetCurrentImageData(imgs, idx, rot, ow, oh, dw, dh) ==
    IF imgs = << >> \/ idx >= Len(imgs)
    THEN [ok |-> FALSE, err |-> "NoActiveAsset", ow |-> ow, oh |-> oh, dw |-> dw, dh |-> dh]
    ELSE LET path == imgs[idx + 1]
             size == Rotated(LoadedSize(path), rot)
             disp == Previews[path][rot]
         IN  IF ~Loads(path)
             THEN [ok |-> FALSE, err |-> "LoadFailure",
                   ow |-> ow, oh |-> oh, dw |-> dw, dh |-> dh]
             ELSE IF disp[1] = 0 \/ disp[2] = 0
             THEN [ok |-> FALSE, err |-> "LoadFailure",
                   ow |-> size[1], oh |-> size[2], dw |-> dw, dh |-> dh]
             ELSE [ok |-> FileAt(path).encodes,
                   err |-> IF FileAt(path).encodes THEN "none" ELSE "LoadFailure",
                   ow |-> size[1], oh |-> size[2], dw |-> disp[1], dh |-> disp[2]]

(***************************************************************************)
(* The export commit: validation, destination name, write strategy.        *)
(***************************************************************************)
\* src/main.py:374, in the order the code scans them.
InvalidChars == << "\\", "/", ":", "*", "?", "\"", "<", ">", "|" >>

\* A scan that looks at the name only.
InvalidFoundInName(name, number) ==
    SelectSeq(InvalidChars, LAMBDA c : Contains(name, c))

\* invalid_found: the reserved characters present in the name or the number.
InvalidFound(name, number) ==
    SelectSeq(InvalidChars, LAMBDA c : Contains(name, c) \/ Contains(number, c))

\* base_name
BaseOf(name, number) ==
    IF name # << >> /\ number # << >> THEN name \o << "-" >> \o number
    ELSE IF name # << >> THEN name
    ELSE number

\* original_ext: the source's extension in lower case, ".jpg" when it has none.
ExtOf(path) ==
    IF Lower(SplitExt(path)) = << >> THEN << ".", "j", "p", "g" >>
    ELSE Lower(SplitExt(path))

\* The file name tried after `counter - 1` collisions (counter = 0: the plain name).
Candidate(base, ext, counter) ==
    IF counter = 0 THEN base \o ext
    ELSE base \o << "(" >> \o IntToStr(counter) \o << ")" >> \o ext

\* The while loop over os.path.exists: the first candidate not among `existing`.
RECURSIVE ProbeFrom(_, _, _, _)
ProbeFrom(existing, base, ext, counter) ==
    IF Candidate(base, ext, counter) \notin existing
    THEN Candidate(base, ext, counter)
    ELSE ProbeFrom(existing, base, ext, counter + 1)

\* A commit that does not look at what exists.
SaveFileNameUnprobed(existing, base, ext) == Candidate(base, ext, 0)

SaveFileName(existing, base, ext) == ProbeFrom(existing, base, ext, 0)

\* exif.get(274) as the export reads it through img._getexif(): 0 stands for
\* "nothing read" (the open fails, the format's reader has no _getexif, or the
\* file embeds no tag); the bare except swallows the first two.
ExifOrientation(path) ==
    LET f == FileAt(path)
    IN  IF f.decodes /\ f.format \in {"jpeg", "png", "webp"} THEN f.orient ELSE 0

\* needs_processing
NeedsProcessing(path, rot) ==
    \/ rot # 0
    \/ ExifOrientation(path) \notin {0, 1}

\* Whether the commit re-encodes instead of copying the source bytes.
Reencodes(path, rot) == ~IsPdf(path) /\ NeedsProcessing(path, rot)

\* What the commit writes: the source's own bytes (shutil.copy2), or the source
\* decoded, orientation-corrected, rotated by `rot` and encoded again.
CopyOf(path) == [rot |-> 0, kind |-> "copy", src |-> path]

EncodingOf(path, rot) == [rot |-> rot, kind |-> "encoded", src |-> path]

NothingWritten == [rot |-> 0, kind |-> "none", src |-> << >>]

Written(path, rot) ==
    IF Reencodes(path, rot) THEN EncodingOf(path, rot) ELSE CopyOf(path)

(***************************************************************************)
(* The session (the fields of Api that the pipeline reads and writes), the *)
(* destination folder, and what the last call returned.                    *)
(***************************************************************************)
VARIABLES
    images,           \* self.images: the listed asset paths
    current_index,    \* self.current_index, 0-based
    rotation,         \* self.rotation, degrees
    save_path,        \* self.save_path, << >> while unset
    original_width,   \* self.original_width
    original_height,  \* self.original_height
    display_width,    \* self.display_width
    display_height,   \* self.display_height
    dest,             \* the paths that exist in the destination folder
    last,             \* the last call: operation and returned outcome
    turns,            \* rotate calls since rotation was last reset, modulo 2
    net,              \* right turns minus left turns since that reset, modulo 4
    base              \* the recorded original size when that reset returned

session == << images, current_index, rotation, save_path,
              original_width, original_height, display_width, display_height >>

history == << turns, net, base >>

vars == << images, current_index, rotation, save_path,
           original_width, original_height, display_width, display_height,
           dest, last, turns, net, base >>

\* Inputs of rename_and_save in a session of any calls.
NameInputs ==
    { << >>, << "A" >>, << "a", ":", "?" >> }

NumberInputs ==
    { << >>, << "<", "1" >> }

\* Inputs of rename_and_save in an export session: "A-1" is both a name and
\* what the name "A" and the number "1" are joined to.
ExportNames ==
    { << >>, << "A" >>, << "A", "-", "1" >>, << "a", ":", "?" >> }

ExportNumbers ==
    { << >>, << "1" >> }

\* Files the destination folder may hold before the session starts.
PriorNames ==
    { << "A", "-", "1", ".", "j", "p", "g" >>,
      << "A", "-", "1", "(", "2", ")", ".", "j", "p", "g" >> }

\* The call and the returned dictionary, reduced to what is read of them: the
\* operation, its arguments (the page of goto_image, the name and number of
\* rename_and_save), the success flag, the kind of failure, the characters
\* the message lists, the path written, what was written there, and the
\* outcome of the preview nested in a commit's answer; for next_image and
\* prev_image the index they moved from; for crop_and_ocr the
\* selection <<x, y, width, height, img_width, img_height>> and the box
\* <<crop_x, crop_y, crop_x2, crop_y2>> handed to img.crop.
Result(op, ok, err) ==
    [n |-> 0, name |-> << >>, path |-> << >>, ok |-> ok, err |-> err,
     number |-> << >>, op |-> op, chars |-> << >>, written |-> NothingWritten,
     next |-> "none", sel |-> << >>, box |-> << >>, from |-> 0]

Goto(n, ok, err) == [Result("goto_image", ok, err) EXCEPT !.n = n]

Rename(name, number, ok, err) ==
    [Result("rename_and_save", ok, err) EXCEPT !.name = name, !.number = number]

InitWith(priors) ==
    /\ images = << >>
    /\ current_index = 0
    /\ rotation = 0
    /\ save_path = << >>
    /\ original_width = 0
    /\ original_height = 0
    /\ display_width = 0
    /\ display_height = 0
    /\ \E prior \in priors :
          dest = { JoinPath(SaveFolder, n) : n \in prior }
    /\ last = Result("init", TRUE, "none")
    /\ turns = 0
    /\ net = 0
    /\ base = << 0, 0 >>

\* After construction, with an empty destination folder.
Init == InitWith({ {} })

\* After construction, with any of the prior contents of the destination folder.
InitExport == InitWith(SUBSET PriorNames)

\* The sizes _get_current_image_data leaves behind.
RecordSizes(d) ==
    /\ original_width' = d.ow
    /\ original_height' = d.oh
    /\ display_width' = d.dw
    /\ display_height' = d.dh

\* A call assigned self.rotation = 0 and derived the preview: a new rotation
\* sequence starts from the sizes now recorded.
StartSequence(d) ==
    /\ turns' = 0
    /\ net' = 0
    /\ base' = << d.ow, d.oh >>

Derive(imgs, idx, rot) ==
    GetCurrentImageData(imgs, idx, rot, original_width, original_height,
                        display_width, display_height)

\* A call that returns a failure before assigning anything.
Refused(result) ==
    /\ last' = result
    /\ UNCHANGED << session, dest, history >>

(***************************************************************************)
(* open_file and open_folder.  The dialog returns a path, or nothing (it   *)
(* is cancelled or raises): then nothing is assigned.                      *)
(***************************************************************************)
OpenFileChosen(path) ==
    LET d == Derive(<< path >>, 0, 0)
    IN  /\ images' = << path >>
        /\ current_index' = 0
        /\ rotation' = 0
        /\ RecordSizes(d)
        /\ StartSequence(d)
        /\ last' = Result("open_file", d.ok, d.err)
        /\ UNCHANGED << save_path, dest >>

open_file ==
    \/ Refused(Result("open_file", FALSE, "NotChosen"))
    \/ \E f \in Files : OpenFileChosen(FilePath(f))

\* iterdir raises after self.images was emptied; an empty listing returns
\* a failure at the same point.  Neither assigns the index or the rotation.
OpenFolderEmptied(folder) ==
    /\ ~Listable(folder) \/ Listings[folder] = << >>
    /\ images' = << >>
    /\ last' = Result("open_folder", FALSE,
                      IF Listable(folder) THEN "EmptyFolder" ELSE "OpenFailed")
    /\ UNCHANGED << current_index, rotation, save_path, original_width,
                    original_height, display_width, display_height, dest, history >>

OpenFolderListed(folder) ==
    LET d == Derive(Listings[folder], 0, 0)
    IN  /\ Listable(folder)
        /\ Listings[folder] # << >>
        /\ images' = Listings[folder]
        /\ current_index' = 0
        /\ rotation' = 0
        /\ RecordSizes(d)
        /\ StartSequence(d)
        /\ last' = Result("open_folder", d.ok, d.err)
        /\ UNCHANGED << save_path, dest >>

open_folder ==
    \/ Refused(Result("open_folder", FALSE, "NotChosen"))
    \/ \E folder \in SourceFolders : OpenFolderEmptied(folder)
    \/ \E folder \in SourceFolders : OpenFolderListed(folder)

(***************************************************************************)
(* Navigation and rotation.                                                *)
(***************************************************************************)
\* A move that forgets to reset the rotation.
MoveToRotated(op, idx, n) ==
    LET d == Derive(images, idx, rotation)
    IN  /\ current_index' = idx
        /\ RecordSizes(d)
        /\ StartSequence(d)
        /\ last' = [Result(op, d.ok, d.err) EXCEPT
                        !.n = n,
                        !.from = IF op = "goto_image" THEN 0 ELSE current_index]
        /\ UNCHANGED << images, rotation, save_path, dest >>

\* The common tail of next_image, prev_image and goto_image.
MoveTo(op, idx, n) ==
    LET d == Derive(images, idx, 0)
    IN  /\ current_index' = idx
        /\ rotation' = 0
        /\ RecordSizes(d)
        /\ StartSequence(d)
        /\ last' = [Result(op, d.ok, d.err) EXCEPT
                        !.n = n,
                        !.from = IF op = "goto_image" THEN 0 ELSE current_index]
        /\ UNCHANGED << images, save_path, dest >>

NextIndex(idx, total) == (idx + 1) % total

\* A step back that stops short of wrapping.
PrevIndexUnwrapped(idx, total) == IF idx = 0 THEN 0 ELSE idx - 1

PrevIndex(idx, total) == (idx - 1) % total

next_image ==
    \/ images = << >> /\ Refused(Result("next_image", FALSE, "NoActiveAsset"))
    \/ images # << >> /\ MoveTo("next_image", NextIndex(current_index, Len(images)), 0)

prev_image ==
    \/ images = << >> /\ Refused(Result("prev_image", FALSE, "NoActiveAsset"))
    \/ images # << >> /\ MoveTo("prev_image", PrevIndex(current_index, Len(images)), 0)

\* A range check that is off by one at the upper end.
GotoOutOfRangeLax(n, total) == n - 1 < 0 \/ n - 1 > total

\* actual_index < 0 or actual_index >= len(self.images)
GotoOutOfRange(n, total) == n - 1 < 0 \/ n - 1 >= total

goto_image(n) ==
    \/ images = << >> /\ Refused(Goto(n, FALSE, "NoActiveAsset"))
    \/ images # << >> /\ GotoOutOfRange(n, Len(images))
                      /\ Refused(Goto(n, FALSE, "OutOfRange"))
    \/ images # << >> /\ ~GotoOutOfRange(n, Len(images))
                      /\ MoveTo("goto_image", n - 1, n)

\* A left turn that turns right.
RotateLeftAsRight(rot) == (rot + 90) % 360

RotateLeft(rot) == (rot - 90) % 360

RotateRight(rot) == (rot + 90) % 360

\* The common tail of rotate_left and rotate_right: neither checks for an
\* active asset before assigning the rotation.
RotateTo(op, rot, step) ==
    LET d == Derive(images, current_index, rot)
    IN  /\ rotation' = rot
        /\ RecordSizes(d)
        /\ turns' = (turns + 1) % 2
        /\ net' = (net + step) % 4
        /\ last' = Result(op, d.ok, d.err)
        /\ UNCHANGED << images, current_index, save_path, dest, base >>

rotate_left == RotateTo("rotate_left", RotateLeft(rotation), 0 - 1)

rotate_right == RotateTo("rotate_right", RotateRight(rotation), 1)

(***************************************************************************)
(* set_save_path                                                           *)
(***************************************************************************)
set_save_path ==
    \/ Refused(Result("set_save_path", FALSE, "NotChosen"))
    \/ /\ save_path' = SaveFolder
       /\ last' = Result("set_save_path", TRUE, "none")
       /\ UNCHANGED << images, current_index, rotation, original_width,
                       original_height, display_width, display_height, dest, history >>

(***************************************************************************)
(* rename_and_save                                                         *)
(***************************************************************************)
\* The check that returns a failure before the try block, "none" when the
\* call goes on to write.
Rejection(name, number) ==
    IF images = << >> \/ current_index >= Len(images) THEN "NoActiveAsset"
    ELSE IF save_path = << >> THEN "NoSavePath"
    ELSE IF name = << >> /\ number = << >> THEN "ValidationError"
    ELSE IF InvalidFound(name, number) # << >> THEN "ValidationError"
    ELSE "none"

\* chars_display: only the reserved-character message lists characters.
RejectionChars(name, number) ==
    IF /\ images # << >>
       /\ current_index < Len(images)
       /\ save_path # << >>
       /\ ~(name = << >> /\ number = << >>)
    THEN InvalidFound(name, number)
    ELSE << >>

RenameRejected(name, number) ==
    /\ Rejection(name, number) # "none"
    /\ last' = [Rename(name, number, FALSE, Rejection(name, number))
                   EXCEPT !.chars = RejectionChars(name, number)]
    /\ UNCHANGED << session, dest, history >>

\* save_file_path
TargetPath(name, number) ==
    LET existing == { BaseName(p) : p \in { q \in dest : SubSeq(q, 1, Len(save_path)) = save_path } }
    IN  JoinPath(save_path,
                 SaveFileName(existing, BaseOf(name, number),
                              ExtOf(images[current_index + 1])))

\* The re-encoding branch opens the source with the raster decoder, which
\* raises on a file it cannot decode; the copy branch reads no pixels.
SourceOpens(path, rot) == Reencodes(path, rot) => Loads(path)

\* The try block raises: nothing is assigned.  A write that fails midway
\* leaves a partial file at the destination path.
RenameWriteFailed(name, number, leftover) ==
    /\ Rejection(name, number) = "none"
    /\ IF leftover
       THEN /\ SourceOpens(images[current_index + 1], rotation)
            /\ dest' = dest \cup { TargetPath(name, number) }
       ELSE UNCHANGED dest
    /\ last' = Rename(name, number, FALSE, "ExportIOFailure")
    /\ UNCHANGED << session, history >>

\* An advance that does not wrap around.
AfterCommitUnwrapped(idx, total) == IF total = 1 THEN idx ELSE idx + 1

\* The index the session shows after a commit.
AfterCommit(idx, total) == IF total = 1 THEN idx ELSE (idx + 1) % total

RenameCommitted(name, number) ==
    LET path == images[current_index + 1]
        idx == AfterCommit(current_index, Len(images))
        d == Derive(images, idx, 0)
    IN  /\ Rejection(name, number) = "none"
        /\ SourceOpens(path, rotation)
        /\ dest' = dest \cup { TargetPath(name, number) }
        /\ rotation' = 0
        /\ current_index' = idx
        /\ RecordSizes(d)
        /\ StartSequence(d)
        /\ last' = [Rename(name, number, TRUE, "none")
                       EXCEPT !.path = TargetPath(name, number),
                              !.written = Written(path, rotation),
                              !.next = IF d.ok THEN "ok" ELSE d.err]
        /\ UNCHANGED << images, save_path >>

rename_and_save(name, number) ==
    \/ RenameRejected(name, number)
    \/ \E leftover \in BOOLEAN : RenameWriteFailed(name, number, leftover)
    \/ RenameCommitted(name, number)

(***************************************************************************)
(* crop_and_ocr: the selection, drawn on the displayed image, is mapped to *)
(* the pixels of the loaded image.  The recognised text is not modelled.   *)
(***************************************************************************)
\* int(v * scale) for the float scale = actual / shown.
Scaled(v, actual, shown) == TruncTimesQuotient(v, actual, shown)

\* The files of a crop session, the sides of their images and of the sizes
\* they are shown at, and the coordinates of the selections drawn on them.
CropFiles ==
    { << "p", "/", "a", ".", "j", "p", "g" >>,
      << "p", "/", "d", ".", "p", "n", "g" >> }

ActualSides == { LoadedSize(path)[i] : path \in CropFiles, i \in 1..2 }

ShownSides == { Previews[path][0][i] : path \in CropFiles, i \in 1..2 } \cup { 8, 6 }

SelectionOrigins == (0 - 1)..MaxSel

SelectionExtents == 0..MaxSel

\* The scalings of a crop session, worked out once.
Scalings ==
    [v \in SelectionOrigins \cup SelectionExtents |->
        [actual \in ActualSides \ {0} |->
            [shown \in ShownSides \ {0} |-> Scaled(v, actual, shown)]]]

ScaledAt(v, actual, shown) ==
    IF /\ v \in SelectionOrigins \cup SelectionExtents
       /\ actual \in ActualSides \ {0}
       /\ shown \in ShownSides \ {0}
    THEN Scalings[v][actual][shown]
    ELSE Scaled(v, actual, shown)

\* max(0, min(v, limit))
Clamp(v, limit) ==
    IF v > limit THEN limit
    ELSE IF v < 0 THEN 0
    ELSE v

\* The box cropped from an image of aw x ah pixels shown at iw x ih.
CropBox(x, y, width, height, iw, ih, aw, ah) ==
    LET crop_x == Clamp(ScaledAt(x, aw, iw), aw)
        crop_y == Clamp(ScaledAt(y, ah, ih), ah)
    IN  << crop_x,
           crop_y,
           Clamp(crop_x + ScaledAt(width, aw, iw), aw),
           Clamp(crop_y + ScaledAt(height, ah, ih), ah) >>

\* The size of the image crop_and_ocr loads and rotates.
ActualSize == Rotated(LoadedSize(images[current_index + 1]), rotation)

Crop(sel, ok, err) == [Result("crop_and_ocr", ok, err) EXCEPT !.sel = sel]

crop_and_ocr(x, y, width, height, iw, ih) ==
    LET sel == << x, y, width, height, iw, ih >>
    IN  \/ /\ images = << >> \/ current_index >= Len(images)
           /\ Refused(Crop(sel, FALSE, "NoActiveAsset"))
        \/ /\ images # << >> /\ current_index < Len(images)
           /\ ~Loads(images[current_index + 1]) \/ iw = 0 \/ ih = 0
           /\ Refused(Crop(sel, FALSE, "CropFailure"))
        \/ /\ images # << >> /\ current_index < Len(images)
           /\ Loads(images[current_index + 1]) /\ iw # 0 /\ ih # 0
           /\ last' = [Crop(sel, TRUE, "none")
                          EXCEPT !.box = CropBox(x, y, width, height, iw, ih,
                                                 ActualSize[1], ActualSize[2])]
           /\ UNCHANGED << session, dest, history >>

(***************************************************************************)
(* A session of any calls, one at a time.                                  *)
(***************************************************************************)
GotoInputs == (0 - 1)..(Len(images) + MaxGotoOver)

Next ==
    \/ open_file
    \/ open_folder
    \/ next_image
    \/ prev_image
    \/ \E n \in GotoInputs : goto_image(n)
    \/ rotate_left
    \/ rotate_right
    \/ set_save_path
    \/ /\ Cardinality(dest) < MaxDestFiles
       /\ \E name \in NameInputs, number \in NumberInputs : rename_and_save(name, number)

Spec == Init /\ [][Next]_vars

(***************************************************************************)
(* An export session: one folder is opened and its assets are committed    *)
(* under colliding names into a destination folder that may hold files.    *)
(***************************************************************************)
ExportNext ==
    \/ OpenFolderListed(<< "p" >>)
    \/ next_image
    \/ set_save_path
    \/ /\ Cardinality(dest) < MaxExportFiles
       /\ \E name \in ExportNames, number \in ExportNumbers : rename_and_save(name, number)

SpecExport == InitExport /\ [][ExportNext]_vars

(***************************************************************************)
(* A crop session: an image is opened, possibly rotated, and selections    *)
(* are mapped.  The image is shown at the preview size the session         *)
(* recorded, at another size, or the caller passes no size.                *)
(***************************************************************************)
ShownSizes ==
    { << display_width, display_height >>, << 8, 6 >>, << 0, 0 >> }

CropNext ==
    \/ \E path \in CropFiles : OpenFileChosen(path)
    \/ rotate_right
    \/ \E x \in SelectionOrigins, width \in SelectionExtents, shown \in ShownSizes :
          \E y \in {0, 4}, height \in {3} :
             crop_and_ocr(x, y, width, height, shown[1], shown[2])

SpecCrop == Init /\ [][CropNext]_vars

(***************************************************************************)
(* A viewing session: images of many sizes are opened and turned, and each *)
(* call derives the preview.                                               *)
(***************************************************************************)
ViewedFiles ==
    { FilePath(f) : f \in LargeFiles }
        \cup { << "p", "/", "a", ".", "j", "p", "g" >>, << "r", "/", "g" >> }

ViewNext ==
    \/ \E path \in ViewedFiles : OpenFileChosen(path)
    \/ rotate_left
    \/ rotate_right

SpecView == Init /\ [][ViewNext]_vars

(***************************************************************************)
(* The properties.                                                         *)
(***************************************************************************)
\* The step is a call of rename_and_save that returned success.
Committed == last'.op = "rename_and_save" /\ last'.ok

\* The k-th path of the probe order of the call just made: {base}{ext} for
\* k = 0, {base}(k){ext} after that, in the destination folder.
ProbePath(k) ==
    JoinPath(save_path, Candidate(BaseOf(last'.name, last'.number),
                                  ExtOf(images[current_index + 1]), k))

\* C1: every commit writes a path that did not exist just before it, creates
\* exactly that path, and the path is the first of the probe order {base}{ext},
\* {base}(1){ext}, {base}(2){ext}, ... that did not exist.
C1_CollisionFree ==
    [][Committed =>
          /\ last'.path \notin dest
          /\ dest' = dest \cup { last'.path }
          /\ \E k \in 0..Cardinality(dest) :
                /\ last'.path = ProbePath(k)
                /\ \A j \in 0..(k - 1) : ProbePath(j) \in dest]_vars

\* C1 witness: "A-1.jpg" and "A-1(1).jpg" exist and a commit of name "A",
\* number "1" has just written "A-1(2).jpg".
C1_Witness ==
    /\ last.op = "rename_and_save" /\ last.ok
    /\ last.name = << "A" >> /\ last.number = << "1" >>
    /\ last.path = << "x", "/", "A", "-", "1", "(", "2", ")", ".", "j", "p", "g" >>
    /\ << "x", "/", "A", "-", "1", ".", "j", "p", "g" >> \in dest
    /\ << "x", "/", "A", "-", "1", "(", "1", ")", ".", "j", "p", "g" >> \in dest


\* The operations that make an asset the active one, and the outcomes with
\* which they return after having done so.
SelectingOps == { "open_file", "open_folder", "next_image", "prev_image", "goto_image" }

SelectedOutcomes == { "none", "LoadFailure" }

\* C2: the rotation is 0 right after every open_file, open_folder, next_image,
\* prev_image or in-range goto_image that made an asset the active one, and
\* right after every successful commit, whatever turns came before.
C2_RotationReset ==
    /\ (last.op \in SelectingOps /\ last.err \in SelectedOutcomes) => rotation = 0
    /\ (last.op = "rename_and_save" /\ last.ok) => rotation = 0

\* C2 witness: a commit wrote the asset turned by 270 degrees and the session
\* is back at rotation 0.
C2_Witness ==
    /\ last.op = "rename_and_save" /\ last.ok
    /\ last.written.kind = "encoded" /\ last.written.rot = 270
    /\ rotation = 0

\* C2 witness of the navigation case: a goto_image onto an asset that fails to
\* load has still reset the rotation.
C2_WitnessMove ==
    /\ last.op = "goto_image" /\ last.err = "LoadFailure"
    /\ rotation = 0

\* C3: a PDF asset is written as a copy whatever the rotation; a raster asset
\* is written as a copy exactly when the rotation is 0 and its embedded
\* orientation is absent (0) or upright (1), and is otherwise re-encoded with
\* the rotation applied.
C3_WriteStrategy ==
    [][Committed =>
          LET src == images[current_index + 1]
          IN  /\ last'.written.src = src
              /\ IF IsPdf(src)
                 THEN last'.written = CopyOf(src)
                 ELSE IF rotation = 0 /\ FileAt(src).orient \in {0, 1}
                      THEN last'.written = CopyOf(src)
                      ELSE last'.written = EncodingOf(src, rotation)]_vars

\* The reserved characters, as the set the validation speaks of.
ReservedChars == { "\\", "/", ":", "*", "?", "\"", "<", ">", "|" }

CharsOf(str) == { str[i] : i \in 1..Len(str) }

Offending(name, number) == (CharsOf(name) \cup CharsOf(number)) \cap ReservedChars

\* The step is a call of rename_and_save whose name and number are both empty
\* or hold a reserved character.
InvalidCall ==
    /\ last'.op = "rename_and_save"
    /\ \/ last'.name = << >> /\ last'.number = << >>
       \/ Offending(last'.name, last'.number) # {}

\* C4: a call with an empty name and number, or with a reserved character in
\* either, is rejected, writes no file and changes neither the index nor the
\* rotation; with an active asset and a destination it is a ValidationError,
\* and the characters it lists are exactly the offending ones, each once.
C4_Validation ==
    [][InvalidCall =>
          /\ ~last'.ok
          /\ dest' = dest
          /\ current_index' = current_index
          /\ rotation' = rotation
          /\ (images # << >> /\ save_path # << >>) =>
                /\ last'.err = "ValidationError"
                /\ (last'.name # << >> \/ last'.number # << >>) =>
                      /\ CharsOf(last'.chars) = Offending(last'.name, last'.number)
                      /\ Len(last'.chars) = Cardinality(CharsOf(last'.chars))]_vars

\* C4 witness: the name "a:?" and the number "<1" were rejected with the
\* characters : ? < listed, while a file exists in the destination.
C4_Witness ==
    /\ last.op = "rename_and_save" /\ last.err = "ValidationError"
    /\ last.name = << "a", ":", "?" >> /\ last.number = << "<", "1" >>
    /\ CharsOf(last.chars) = { ":", "?", "<" }
    /\ rotation # 0
    /\ dest # {}

PipelineOps ==
    { "next_image", "prev_image", "goto_image", "rotate_left", "rotate_right",
      "rename_and_save" }

\* C5: whenever next_image, prev_image, goto_image, rotate_left, rotate_right
\* or rename_and_save returns a failure, the index and the rotation are what
\* they were before the call.
C5_FailureKeepsState ==
    [][(last'.op \in PipelineOps /\ ~last'.ok) =>
          /\ current_index' = current_index
          /\ rotation' = rotation]_vars

\* C6: after a commit with N assets listed and index i the rotation is 0, the
\* list is unchanged, and the index is (i + 1) mod N when N > 1 and i when
\* N = 1.
C6_PostCommit ==
    [][Committed =>
          /\ rotation' = 0
          /\ images' = images
          /\ current_index' = IF Len(images) > 1
                              THEN (current_index + 1) % Len(images)
                              ELSE current_index]_vars

\* C6 witness: a commit of the last of two listed assets, turned before the
\* commit, has wrapped to index 0.
C6_Witness ==
    /\ last.op = "rename_and_save" /\ last.ok
    /\ Len(images) = 2 /\ current_index = 0
    /\ last.written.src = images[2]
    /\ last.written.rot # 0

\* C6 witness of the single-asset case: the index stays.
C6_WitnessSingle ==
    /\ last.op = "rename_and_save" /\ last.ok
    /\ Len(images) = 1 /\ current_index = 0
    /\ last.written.rot # 0 /\ rotation = 0

\* The step is a next_image (prev_image) call on a non-empty list.
Stepped(op) == last'.op = op /\ last'.err # "NoActiveAsset"

\* C7: with N >= 1 assets next_image moves the index from i to (i + 1) mod N
\* and prev_image from i to (i - 1) mod N, the index stays within 0..N-1, and
\* a prev_image right after a next_image (or the reverse) returns to the index
\* the first of the two started from.
C7_Wraparound ==
    [][LET N == Len(images)
       IN  /\ Stepped("next_image") =>
                /\ N >= 1
                /\ current_index' = (current_index + 1) % N
                /\ current_index = N - 1 => current_index' = 0
                /\ (last.op = "prev_image" /\ last.err # "NoActiveAsset") =>
                       current_index' = last.from
           /\ Stepped("prev_image") =>
                /\ N >= 1
                /\ current_index' = (current_index - 1) % N
                /\ current_index = 0 => current_index' = N - 1
                /\ (last.op = "next_image" /\ last.err # "NoActiveAsset") =>
                       current_index' = last.from
           /\ (Stepped("next_image") \/ Stepped("prev_image")) =>
                /\ images' = images
                /\ current_index' \in 0..(N - 1)]_vars

\* C7 witness: prev_image from index 0 of three assets has wrapped to index 2.
C7_Witness ==
    /\ last.op = "prev_image" /\ last.err # "NoActiveAsset"
    /\ Len(images) = 3 /\ last.from = 0 /\ current_index = 2

\* C7 witness of the other direction: next_image from the last of three
\* assets has wrapped to index 0.
C7_WitnessNext ==
    /\ last.op = "next_image" /\ last.err # "NoActiveAsset"
    /\ Len(images) = 3 /\ last.from = 2 /\ current_index = 0

\* The step is a goto_image call.
Went == last'.op = "goto_image"

\* C8: goto_image(n) with n in 1..count sets the index to n - 1; with any
\* other n it fails, as OutOfRange when assets are listed, and leaves the
\* index and the rotation unchanged.
C8_Goto ==
    [][Went =>
          LET n == last'.n
              count == Len(images)
          IN  IF n \in 1..count
              THEN current_index' = n - 1 /\ last'.err # "OutOfRange"
              ELSE /\ ~last'.ok
                   /\ count >= 1 => last'.err = "OutOfRange"
                   /\ current_index' = current_index
                   /\ rotation' = rotation]_vars

\* C8 witness: with three assets listed, index 1 and rotation 90,
\* goto_image(4) was refused as OutOfRange.
C8_Witness ==
    /\ last.op = "goto_image" /\ last.err = "OutOfRange"
    /\ Len(images) = 3 /\ last.n = 4
    /\ current_index = 1 /\ rotation = 90

\* C8 witness of the accepted case: goto_image(3) reached the last of three
\* assets.
C8_WitnessInRange ==
    /\ last.op = "goto_image" /\ last.err # "OutOfRange"
    /\ Len(images) = 3 /\ last.n = 3 /\ current_index = 2

RotateOps == { "rotate_left", "rotate_right" }

\* C9 as stated: after an even number of turns on one asset the rotation is 0
\* and the reported original size is the one from before the turns.
C9_EvenTurns ==
    (last.op \in RotateOps /\ last.ok /\ turns = 0) =>
        /\ rotation = 0
        /\ << original_width, original_height >> = base

\* C9: on an asset that has been active since the rotation was last 0, turns
\* whose rights and lefts differ by a multiple of four bring the rotation back
\* to 0, any even number of turns leaves it at 0 or 180, and in both cases the
\* reported original size is the one from before the turns.
C9_NetTurns ==
    images # << >> =>
        /\ net = 0 =>
              /\ rotation = 0
              /\ << original_width, original_height >> = base
        /\ turns = 0 =>
              /\ rotation \in {0, 180}
              /\ << original_width, original_height >> = base

\* C9 witness: a turn has just completed an even sequence that cancels out on
\* an asset that is wider than tall.
C9_Witness ==
    /\ last.op \in RotateOps /\ last.ok
    /\ net = 0 /\ turns = 0 /\ rotation = 0
    /\ original_width > original_height
    /\ << original_width, original_height >> = base

\* C9 witness of the half turn: two turns the same way leave the asset upside
\* down at its original size.
C9_WitnessHalfTurn ==
    /\ last.op \in RotateOps /\ last.ok
    /\ net = 2 /\ turns = 0 /\ rotation = 180
    /\ original_width > original_height
    /\ << original_width, original_height >> = base

\* The last call was a crop_and_ocr that mapped a selection.
Mapped == last.op = "crop_and_ocr" /\ last.ok

\* The selection << x, y, width, height, iw, ih >> lies inside the display.
InsideDisplay(sel) ==
    /\ sel[5] > 0 /\ sel[6] > 0
    /\ 0 <= sel[1] /\ 0 <= sel[2]
    /\ 0 <= sel[3] /\ 0 <= sel[4]
    /\ sel[1] + sel[3] <= sel[5]
    /\ sel[2] + sel[4] <= sel[6]

\* The original-pixel edge e, scaled back by shown / actual, is within one
\* display pixel of the selection edge v: |e * shown / actual - v| <= 1.
WithinOne(e, v, actual, shown) ==
    /\ e * shown - v * actual <= actual
    /\ v * actual - e * shown <= actual

\* The box lies inside an image of aw x ah pixels.
InsideOriginal(box, aw, ah) ==
    /\ 0 <= box[1] /\ box[1] <= aw /\ 0 <= box[3] /\ box[3] <= aw
    /\ 0 <= box[2] /\ box[2] <= ah /\ 0 <= box[4] /\ box[4] <= ah

\* C10: a selection inside the display is mapped to a box inside the original
\* image with no edge moved by the clamp, and every edge of the box, scaled
\* back, is within one display pixel of the selection's edge; the box of any
\* selection lies inside the original image.
C10_CropMapping ==
    Mapped =>
        LET sel == last.sel
            box == last.box
            aw == ActualSize[1]
            ah == ActualSize[2]
        IN  /\ InsideOriginal(box, aw, ah)
            /\ InsideDisplay(sel) =>
                  /\ box[1] = ScaledAt(sel[1], aw, sel[5])
                  /\ box[2] = ScaledAt(sel[2], ah, sel[6])
                  /\ box[3] = box[1] + ScaledAt(sel[3], aw, sel[5])
                  /\ box[4] = box[2] + ScaledAt(sel[4], ah, sel[6])
                  /\ WithinOne(box[1], sel[1], aw, sel[5])
                  /\ WithinOne(box[2], sel[2], ah, sel[6])
                  /\ WithinOne(box[3], sel[1] + sel[3], aw, sel[5])
                  /\ WithinOne(box[4], sel[2] + sel[4], ah, sel[6])

\* The parts of C10 that the mapping does satisfy: the box of any selection
\* lies inside the original image, the clamp moves no edge of a selection
\* inside the display, and the near edges scale back to within one pixel.
CropInBounds ==
    Mapped =>
        LET sel == last.sel
            box == last.box
            aw == ActualSize[1]
            ah == ActualSize[2]
        IN  /\ InsideOriginal(box, aw, ah)
            /\ InsideDisplay(sel) =>
                  /\ box[1] = ScaledAt(sel[1], aw, sel[5])
                  /\ box[2] = ScaledAt(sel[2], ah, sel[6])
                  /\ box[3] = box[1] + ScaledAt(sel[3], aw, sel[5])
                  /\ box[4] = box[2] + ScaledAt(sel[4], ah, sel[6])
                  /\ WithinOne(box[1], sel[1], aw, sel[5])
                  /\ WithinOne(box[2], sel[2], ah, sel[6])

\* A selection that hangs over the left and the bottom edge has been clamped
\* to both.
CropClamped ==
    /\ Mapped
    /\ last.sel[1] < 0
    /\ last.box[1] = 0
    /\ last.sel[2] + last.sel[4] > last.sel[6]
    /\ last.box[4] = ActualSize[2]
    /\ last.box[2] + ScaledAt(last.sel[4], ActualSize[2], last.sel[6]) > ActualSize[2]

\* An image is active and was loaded: the sizes recorded as original are
\* those of its canonical buffer.
Loaded == images # << >> /\ current_index < Len(images) /\ Loads(images[current_index + 1])

Longer(w, h) == IF w >= h THEN w ELSE h

\* Both sides fit the ceiling.
Fits(w, h) == w <= MAX_DISPLAY_SIZE /\ h <= MAX_DISPLAY_SIZE

\* floor(side * r) for the ratio r = min(C / w, C / h) = C / max(w, h).
ExactScaled(side, w, h) == (side * MAX_DISPLAY_SIZE) \div Longer(w, h)

\* C11: for a canonical buffer of W x H, W, H >= 1, the recorded display
\* size (dw, dh) has max(dw, dh) <= MAX_DISPLAY_SIZE, dw <= W and dh <= H; it
\* is (W, H) exactly when both sides fit the ceiling, and otherwise
\* dw = floor(W * r) and dh = floor(H * r) for r = min(C / W, C / H).
C11_DisplayBound ==
    (Loaded /\ original_width >= 1 /\ original_height >= 1) =>
        /\ Longer(display_width, display_height) <= MAX_DISPLAY_SIZE
        /\ display_width <= original_width
        /\ display_height <= original_height
        /\ << display_width, display_height >> = << original_width, original_height >>
              <=> Fits(original_width, original_height)
        /\ ~Fits(original_width, original_height) =>
              /\ display_width = ExactScaled(original_width, original_width, original_height)
              /\ display_height = ExactScaled(original_height, original_width, original_height)

\* What does hold of the recorded display size when the preview was derived:
\* it is within the ceiling and the original, equal to the original exactly
\* when that fits, and otherwise each side is floor(side * r) or one less.
DisplayWithinBounds ==
    (Loaded /\ last.ok) =>
        /\ display_width >= 1 /\ display_height >= 1
        /\ Longer(display_width, display_height) <= MAX_DISPLAY_SIZE
        /\ display_width <= original_width
        /\ display_height <= original_height
        /\ << display_width, display_height >> = << original_width, original_height >>
              <=> Fits(original_width, original_height)
        /\ ~Fits(original_width, original_height) =>
              /\ display_width \in
                    { ExactScaled(original_width, original_width, original_height) - 1,
                      ExactScaled(original_width, original_width, original_height) }
              /\ display_height \in
                    { ExactScaled(original_height, original_width, original_height) - 1,
                      ExactScaled(original_height, original_width, original_height) }

\* A preview was derived whose width is one less than floor(W * r).
DisplayRoundedDown ==
    /\ Loaded /\ last.ok
    /\ ~Fits(original_width, original_height)
    /\ display_width = ExactScaled(original_width, original_width, original_height) - 1

\* The preview of a loaded image failed and the display size on record is
\* that of the image shown before it.
DisplayStale ==
    /\ Loaded /\ ~last.ok
    /\ display_width > original_width

=============================================================================
